---- MODULE Spec2Model ----
(***************************************************************************)
(* Model of the host window of "Videolnsight pro-v1.py": the thumbnail     *)
(* work queue of VideoInfoViewer, the probe threads of the tabs, and the   *)
(* plugin lifecycle (scan / load / unload).                                *)
(***************************************************************************)
EXTENDS Integers, Sequences, FiniteSets, TLC

\* ---------------------------------------------------------------- bounds
NumFiles == 4          \* distinct video file paths the user can pick
MaxAdd == 1            \* longest file list handed to add_files_to_list
MaxEvents == 1         \* queued signal deliveries not yet handled
MaxPending == 2        \* longest thumbnail_queue
MaxTabs == 1           \* tabs open at a time
NumPlugins == 2        \* plugin names
MaxNameLen == 2        \* longest name text handed to _write_enabled_plugins
MaxNames == 2          \* largest set of name texts handed to _write_enabled_plugins
MaxStreams == 2        \* streams the fallback ffprobe run reports
MaxBatch == 2          \* video files the metadata tool can have in its list
NumStems == 2          \* file names the plugins directory can hold
MaxInstall == 1        \* files picked for one call of _install_files

Files == 1..NumFiles

\* self.max_concurrent_thumbnails = 3
max_concurrent_thumbnails == 3

VARIABLES
    video_files,                \* self.video_files (only membership is read)
    file_list_widget,           \* the QListWidget: the file paths that have an item in it
    thumbnail_queue,            \* self.thumbnail_queue: list of (file_path, item)
    thumbnail_threads,          \* self.thumbnail_threads: file_path -> (thread, item)
    active_thumbnail_threads,   \* self.active_thumbnail_threads
    events,                     \* signals emitted by workers, queued for the control thread
    tabs,                       \* self.tab_widget: file_path of each VideoInfoTab -> its analysis_thread
    plugins_dir,                \* the .py files of the plugins directory, by the name a scan gives them
    plugins_found,              \* self.plugins_found: name -> {"path": ...}
    plugins_loaded,             \* self.plugins_loaded: name -> {"module": ..., "handle": ...}
    callback,                   \* the plugin entry point the control thread is inside of, if any
    result,                     \* what the last load_plugin / unload_plugin call gave its caller
    enabled_raw,                \* the string stored under the settings key "plugins/enabled"
    journal,                    \* what the last handler of the plugin menu / plugin hub did
    roundtrip,                  \* a set of names on its way through _write / _read_enabled_plugins
    job,                        \* one worker thread (probe or thumbnail) and its external processes
    registry,                   \* plugin files with their text, scanned by the host and installed by the hub
    metatool,                   \* the metadata tool's dialog: its file list, the files on disk, its last batch
    worker                      \* one probe worker statement by statement, stop() and the tab it reports to

\* A QListWidgetItem is made for one file; what the model keeps of the object
\* is whether it is still in the list widget (TRUE) or was taken out of it.
\* A ThumbnailGeneratorThread object is kept as its position in run():
\* "running" or "done".

vars == <<video_files, file_list_widget, thumbnail_queue, thumbnail_threads,
          active_thumbnail_threads, events, tabs,
          plugins_dir, plugins_found, plugins_loaded, callback, result,
          enabled_raw, journal, roundtrip, job, registry, metatool, worker>>

Names == 1..NumPlugins

\* the control thread is in none of the plugins' entry points
NoCallback == [kind |-> "none"]
\* no load_plugin / unload_plugin call was made yet
NoResult == [call |-> "none", name |-> 0, value |-> "None", invoked |-> FALSE, logged |-> FALSE]
\* no handler of the plugin menu / plugin hub has run yet
NoJournal == [op |-> "none"]
\* no worker thread was made yet
NoJob == [kind |-> "none", pc |-> "done"]

PluginVars == <<plugins_dir, plugins_found, plugins_loaded, callback, result>>
HubVars == <<enabled_raw, journal>>
JobVars == <<roundtrip, job>>
ToolVars == <<registry, metatool, worker>>

\* ------------------------------------------------------------ helpers
\* dict.pop(key)
DictPop(d, k) == [x \in DOMAIN d \ {k} |-> d[x]]

\* dict[key] = value
DictPut(d, k, v) == [x \in DOMAIN d \cup {k} |-> IF x = k THEN v ELSE d[x]]

\* ------------------------------------------- ThumbnailGeneratorThread.run
\* how the external ffmpeg run of a worker can end
Outcomes == {"timeout", "nonzero", "image", "badimage", "nodata", "exception"}

\* the signal run() emits for an outcome, given the value of _is_running it
\* reads at lines 401 / 416 (line 399 emits without reading it)
EmitOf(f, outcome, running) ==
    IF outcome = "timeout" THEN <<[kind |-> "error", file |-> f]>>
    ELSE IF ~running THEN <<>>
    ELSE IF outcome = "image" THEN <<[kind |-> "generated", file |-> f]>>
    ELSE <<[kind |-> "error", file |-> f]>>

\* thread.wait(): the thread runs to the end of run(); the signal sequences it
\* can emit on the way, from position pc with _is_running = running
WaitEmits(f, pc, running) ==
    IF pc = "running" THEN {EmitOf(f, o, running) : o \in Outcomes}
    ELSE {<<>>}

\* ---------------------------------------------------- the work queue
\* the part of the host state process_thumbnail_queue reads and writes
QState == [queue |-> thumbnail_queue, threads |-> thumbnail_threads,
           active |-> active_thumbnail_threads]

\* process_thumbnail_queue with the loop condition off by one
RECURSIVE process_thumbnail_queue_offbyone(_)
process_thumbnail_queue_offbyone(s) ==
    IF s.active <= max_concurrent_thumbnails /\ s.queue # <<>>
    THEN LET e == Head(s.queue)
             popped == [s EXCEPT !.queue = Tail(s.queue)]
         IN IF e.file \in DOMAIN s.threads
            THEN process_thumbnail_queue_offbyone(popped)
            ELSE process_thumbnail_queue_offbyone(
                    [popped EXCEPT !.threads = DictPut(s.threads, e.file,
                                                  [thread |-> "running", item |-> e.item]),
                                   !.active = s.active + 1])
    ELSE s

RECURSIVE process_thumbnail_queue(_)
process_thumbnail_queue(s) ==
    IF s.active < max_concurrent_thumbnails /\ s.queue # <<>>
    THEN LET e == Head(s.queue)
             popped == [s EXCEPT !.queue = Tail(s.queue)]
         IN IF e.file \in DOMAIN s.threads
            THEN process_thumbnail_queue(popped)
            ELSE process_thumbnail_queue(
                    [popped EXCEPT !.threads = DictPut(s.threads, e.file,
                                                  [thread |-> "running", item |-> e.item]),
                                   !.active = s.active + 1])
    ELSE s

\* queue_thumbnail_generation starting the thread itself, past the queue
queue_thumbnail_generation_direct(s, f, item) ==
    IF f \in DOMAIN s.threads THEN s
    ELSE [s EXCEPT !.threads = DictPut(s.threads, f, [thread |-> "running", item |-> item]),
                   !.active = s.active + 1]

queue_thumbnail_generation(s, f, item) ==
    IF f \in DOMAIN s.threads THEN s
    ELSE process_thumbnail_queue([s EXCEPT !.queue = Append(s.queue, [file |-> f, item |-> item])])

\* add_files_to_list: the loop over files; h carries video_files, the list
\* widget and the queue state
RECURSIVE add_files_loop(_, _)
add_files_loop(h, files) ==
    IF files = <<>> THEN h
    ELSE LET f == Head(files) IN
         IF f \in h.video_files THEN add_files_loop(h, Tail(files))
         ELSE add_files_loop(
                [video_files |-> h.video_files \cup {f},
                 widget |-> h.widget \cup {f},
                 q |-> queue_thumbnail_generation(h.q, f, TRUE)],
                Tail(files))

SetQ(s) ==
    /\ thumbnail_queue' = s.queue
    /\ thumbnail_threads' = s.threads
    /\ active_thumbnail_threads' = s.active

\* takeItem / clear: the items of the files fs leave the list widget
Unlist(s, fs) ==
    [s EXCEPT !.queue = [i \in 1..Len(s.queue) |->
                            IF s.queue[i].file \in fs
                            THEN [s.queue[i] EXCEPT !.item = FALSE] ELSE s.queue[i]],
              !.threads = [f \in DOMAIN s.threads |->
                            IF f \in fs THEN [s.threads[f] EXCEPT !.item = FALSE]
                            ELSE s.threads[f]]]

FileLists == UNION {[1..n -> Files] : n \in 1..MaxAdd}

AddFilesToList(files) ==
    /\ LET h == add_files_loop([video_files |-> video_files, widget |-> file_list_widget,
                                q |-> QState], files)
       IN /\ Len(h.q.queue) <= MaxPending
          /\ video_files' = h.video_files
          /\ file_list_widget' = h.widget
          /\ SetQ(h.q)
    /\ UNCHANGED <<events, tabs>>
    /\ UNCHANGED <<PluginVars, HubVars, JobVars, ToolVars>>

\* the signal handlers releasing a slot without the test of lines 1357 / 1364
on_thumbnail_signal_unguarded(f) ==
    \E em \in (IF f \in DOMAIN thumbnail_threads
                THEN WaitEmits(f, thumbnail_threads[f].thread, TRUE) ELSE {<<>>}) :
        /\ events' = Tail(events) \o em
        /\ SetQ(process_thumbnail_queue(
              [queue |-> thumbnail_queue,
               threads |-> DictPop(thumbnail_threads, f),
               active |-> active_thumbnail_threads - 1]))

\* lines 1357-1362 and 1364-1368: the body shared by both signal handlers
on_thumbnail_signal(f) ==
    IF f \in DOMAIN thumbnail_threads
    THEN \E em \in WaitEmits(f, thumbnail_threads[f].thread, TRUE) :
            /\ events' = Tail(events) \o em
            /\ SetQ(process_thumbnail_queue(
                  [queue |-> thumbnail_queue,
                   threads |-> DictPop(thumbnail_threads, f),
                   active |-> active_thumbnail_threads - 1]))
    ELSE /\ events' = Tail(events)
         /\ UNCHANGED <<thumbnail_queue, thumbnail_threads, active_thumbnail_threads>>

OnThumbnailGenerated ==
    /\ events # <<>>
    /\ Head(events).kind = "generated"
    /\ on_thumbnail_signal(Head(events).file)
    /\ UNCHANGED <<video_files, file_list_widget, tabs>>
    /\ UNCHANGED <<PluginVars, HubVars, JobVars, ToolVars>>

OnThumbnailError ==
    /\ events # <<>>
    /\ Head(events).kind = "error"
    /\ on_thumbnail_signal(Head(events).file)
    /\ UNCHANGED <<video_files, file_list_widget, tabs>>
    /\ UNCHANGED <<PluginVars, HubVars, JobVars, ToolVars>>

\* close_tab for every tab of the files fs: VideoInfoTab.closeEvent stops the
\* analysis thread and waits at most 3 s for it, then the tab is removed
close_tabs(tb, fs) == [f \in DOMAIN tb \ fs |-> tb[f]]

\* remove_selected_files, for the selected item (the list is single-selection)
RemoveSelectedFiles(f) ==
    /\ f \in file_list_widget
    /\ video_files' = video_files \ {f}
    /\ file_list_widget' = file_list_widget \ {f}
    /\ IF f \in DOMAIN thumbnail_threads
       THEN \E em \in WaitEmits(f, thumbnail_threads[f].thread, FALSE) :
               /\ Len(events \o em) <= MaxEvents
               /\ events' = events \o em
               /\ SetQ(Unlist(process_thumbnail_queue(
                     [queue |-> thumbnail_queue,
                      threads |-> DictPop(thumbnail_threads, f),
                      active |-> active_thumbnail_threads - 1]), {f}))
       ELSE /\ SetQ(Unlist(QState, {f}))
            /\ UNCHANGED events
    /\ tabs' = close_tabs(tabs, {f})
    /\ UNCHANGED <<PluginVars, HubVars, JobVars, ToolVars>>

\* clear_file_list, lines 1387-1389: stop() and wait() every tracked thread;
\* the files whose stopped thread still emits its time-out signal
ClearEmitters ==
    {fs \in SUBSET DOMAIN thumbnail_threads :
        \A f \in fs : <<[kind |-> "error", file |-> f]>>
                        \in WaitEmits(f, thumbnail_threads[f].thread, FALSE)}

\* the signals of the files fs, in the order the loop visits them
RECURSIVE EmitSeq(_)
EmitSeq(fs) ==
    IF fs = {} THEN <<>>
    ELSE LET f == CHOOSE x \in fs : \A y \in fs : x <= y
         IN <<[kind |-> "error", file |-> f]>> \o EmitSeq(fs \ {f})

ClearFileList ==
    /\ \E fs \in ClearEmitters :
          /\ Len(events) + Cardinality(fs) <= MaxEvents
          /\ events' = events \o EmitSeq(fs)
    /\ thumbnail_threads' = <<>>
    /\ thumbnail_queue' = <<>>
    /\ active_thumbnail_threads' = 0
    /\ file_list_widget' = {}
    /\ video_files' = {}
    /\ tabs' = close_tabs(tabs, DOMAIN tabs)
    /\ UNCHANGED <<PluginVars, HubVars, JobVars, ToolVars>>

\* ------------------------------ a ThumbnailGeneratorThread worker: run()
ThumbRun(f) ==
    /\ f \in DOMAIN thumbnail_threads
    /\ thumbnail_threads[f].thread = "running"
    /\ Len(events) < MaxEvents
    /\ \E em \in {EmitOf(f, o, TRUE) : o \in Outcomes} : events' = events \o em
    /\ thumbnail_threads' = [thumbnail_threads EXCEPT ![f].thread = "done"]
    /\ UNCHANGED <<video_files, file_list_widget, thumbnail_queue, active_thumbnail_threads, tabs>>
    /\ UNCHANGED <<PluginVars, HubVars, JobVars, ToolVars>>

\* --------------------------------------------------------------- the tabs
QueueVars == <<video_files, file_list_widget, thumbnail_queue, thumbnail_threads,
               active_thumbnail_threads, events>>

\* on_file_selected: a click on the item of file f.  An existing tab is only
\* brought to the front; otherwise VideoInfoTab.__init__ runs analyze_video,
\* which starts a FFmpegAnalysisThread at once.
OnFileSelected(f) ==
    /\ f \in file_list_widget
    /\ IF f \in DOMAIN tabs THEN UNCHANGED tabs
       ELSE /\ Cardinality(DOMAIN tabs) < MaxTabs
            /\ tabs' = DictPut(tabs, f, "running")
    /\ UNCHANGED QueueVars
    /\ UNCHANGED <<PluginVars, HubVars, JobVars, ToolVars>>

\* FFmpegAnalysisThread.run comes to its end
ProbeRun(f) ==
    /\ f \in DOMAIN tabs
    /\ tabs[f] = "running"
    /\ tabs' = [tabs EXCEPT ![f] = "done"]
    /\ UNCHANGED QueueVars
    /\ UNCHANGED <<PluginVars, HubVars, JobVars, ToolVars>>

\* close_tab, from the tab bar's close button
CloseTab(f) ==
    /\ f \in DOMAIN tabs
    /\ tabs' = close_tabs(tabs, {f})
    /\ UNCHANGED QueueVars
    /\ UNCHANGED <<PluginVars, HubVars, JobVars, ToolVars>>

\* ------------------------------------------------------------ the plugins
\* a module object after exec_module: whether it defines a callable register
\* and a callable unregister
Modules == [register : BOOLEAN, unregister : BOOLEAN]

\* values a register entry point returns (None among them)
Handles == {"None", "handle"}

\* what a call gave its caller: the value returned ("running" while the call
\* is inside an entry point), whether it invoked the plugin's entry point, and
\* whether it printed a traceback
Returned(call, n, v, inv, log) ==
    result' = [call |-> call, name |-> n, value |-> v, invoked |-> inv, logged |-> log]

\* the plugin files appear and disappear in the plugins directory
InstallPluginFile(n) ==
    /\ callback = NoCallback
    /\ n \notin plugins_dir
    /\ plugins_dir' = plugins_dir \cup {n}
    /\ UNCHANGED <<plugins_found, plugins_loaded, callback, result>>
    /\ UNCHANGED <<QueueVars, tabs, HubVars, JobVars, ToolVars>>

DeletePluginFile(n) ==
    /\ callback = NoCallback
    /\ n \in plugins_dir
    /\ plugins_dir' = plugins_dir \ {n}
    /\ UNCHANGED <<plugins_found, plugins_loaded, callback, result>>
    /\ UNCHANGED <<QueueVars, tabs, HubVars, JobVars, ToolVars>>

\* scan_plugins: plugins_found is cleared and refilled from the directory
scan_plugins(dir) == [n \in dir |-> [path |-> n]]

ScanPlugins ==
    /\ callback = NoCallback
    /\ plugins_found' = scan_plugins(plugins_dir)
    /\ UNCHANGED <<plugins_dir, plugins_loaded, callback, result>>
    /\ UNCHANGED <<QueueVars, tabs, HubVars, JobVars, ToolVars>>

\* load_plugin without the early return for a loaded name
LoadPlugin_reloads(n) ==
    /\ callback = NoCallback
    /\ IF n \notin DOMAIN plugins_found
       THEN /\ Returned("load_plugin", n, "False", FALSE, FALSE)
            /\ UNCHANGED <<plugins_loaded, callback>>
       ELSE \/ /\ Returned("load_plugin", n, "False", FALSE, TRUE)
               /\ UNCHANGED <<plugins_loaded, callback>>
            \/ \E m \in Modules :
                  IF m.register
                  THEN /\ callback' = [kind |-> "register", name |-> n,
                                       module |-> m, handle |-> "None"]
                       /\ Returned("load_plugin", n, "running", TRUE, FALSE)
                       /\ UNCHANGED plugins_loaded
                  ELSE /\ plugins_loaded' = DictPut(plugins_loaded, n,
                                               [module |-> m, handle |-> "None"])
                       /\ Returned("load_plugin", n, "True", FALSE, FALSE)
                       /\ UNCHANGED callback
    /\ UNCHANGED <<plugins_dir, plugins_found>>
    /\ UNCHANGED <<QueueVars, tabs, HubVars, JobVars, ToolVars>>

\* load_plugin reporting success for a name plugins_found does not have
LoadPlugin_nolookup(n) ==
    /\ callback = NoCallback
    /\ IF n \in DOMAIN plugins_loaded \/ n \notin DOMAIN plugins_found
       THEN /\ Returned("load_plugin", n, "True", FALSE, FALSE)
            /\ UNCHANGED <<plugins_loaded, callback>>
       ELSE \/ /\ Returned("load_plugin", n, "False", FALSE, TRUE)
               /\ UNCHANGED <<plugins_loaded, callback>>
            \/ \E m \in Modules :
                  IF m.register
                  THEN /\ callback' = [kind |-> "register", name |-> n,
                                       module |-> m, handle |-> "None"]
                       /\ Returned("load_plugin", n, "running", TRUE, FALSE)
                       /\ UNCHANGED plugins_loaded
                  ELSE /\ plugins_loaded' = DictPut(plugins_loaded, n,
                                               [module |-> m, handle |-> "None"])
                       /\ Returned("load_plugin", n, "True", FALSE, FALSE)
                       /\ UNCHANGED callback
    /\ UNCHANGED <<plugins_dir, plugins_found>>
    /\ UNCHANGED <<QueueVars, tabs, HubVars, JobVars, ToolVars>>

\* load_plugin(name), lines 1033-1046, up to the call of register; and to the
\* end of the function when no register is called
LoadPlugin(n) ==
    /\ callback = NoCallback
    /\ IF n \in DOMAIN plugins_loaded
       THEN /\ Returned("load_plugin", n, "True", FALSE, FALSE)
            /\ UNCHANGED <<plugins_loaded, callback>>
       ELSE IF n \notin DOMAIN plugins_found
       THEN /\ Returned("load_plugin", n, "False", FALSE, FALSE)
            /\ UNCHANGED <<plugins_loaded, callback>>
       ELSE \/ \* spec_from_file_location / exec_module raises
               /\ Returned("load_plugin", n, "False", FALSE, TRUE)
               /\ UNCHANGED <<plugins_loaded, callback>>
            \/ \E m \in Modules :
                  IF m.register
                  THEN /\ callback' = [kind |-> "register", name |-> n,
                                       module |-> m, handle |-> "None"]
                       /\ Returned("load_plugin", n, "running", TRUE, FALSE)
                       /\ UNCHANGED plugins_loaded
                  ELSE /\ plugins_loaded' = DictPut(plugins_loaded, n,
                                               [module |-> m, handle |-> "None"])
                       /\ Returned("load_plugin", n, "True", FALSE, FALSE)
                       /\ UNCHANGED callback
    /\ UNCHANGED <<plugins_dir, plugins_found>>
    /\ UNCHANGED <<QueueVars, tabs, HubVars, JobVars, ToolVars>>

\* load_plugin, lines 1047-1051: register returns h
RegisterReturns(h) ==
    /\ callback.kind = "register"
    /\ plugins_loaded' = DictPut(plugins_loaded, callback.name,
                                 [module |-> callback.module, handle |-> h])
    /\ Returned("load_plugin", callback.name, "True", TRUE, FALSE)
    /\ callback' = NoCallback
    /\ UNCHANGED <<plugins_dir, plugins_found>>
    /\ UNCHANGED <<QueueVars, tabs, HubVars, JobVars, ToolVars>>

\* load_plugin recording the module before register has returned
RegisterRaises_keeps ==
    /\ callback.kind = "register"
    /\ plugins_loaded' = DictPut(plugins_loaded, callback.name,
                                 [module |-> callback.module, handle |-> "None"])
    /\ Returned("load_plugin", callback.name, "False", TRUE, TRUE)
    /\ callback' = NoCallback
    /\ UNCHANGED <<plugins_dir, plugins_found>>
    /\ UNCHANGED <<QueueVars, tabs, HubVars, JobVars, ToolVars>>

\* load_plugin, lines 1052-1055: register raises
RegisterRaises ==
    /\ callback.kind = "register"
    /\ Returned("load_plugin", callback.name, "False", TRUE, TRUE)
    /\ callback' = NoCallback
    /\ UNCHANGED <<plugins_dir, plugins_found, plugins_loaded>>
    /\ UNCHANGED <<QueueVars, tabs, HubVars, JobVars, ToolVars>>

\* unload_plugin calling unregister before the entry is popped
UnloadPlugin_poplater(n) ==
    /\ callback = NoCallback
    /\ IF n \notin DOMAIN plugins_loaded
       THEN /\ Returned("unload_plugin", n, "None", FALSE, FALSE)
            /\ UNCHANGED <<plugins_loaded, callback>>
       ELSE IF plugins_loaded[n].module.unregister
            THEN /\ callback' = [kind |-> "unregister", name |-> n,
                                 module |-> plugins_loaded[n].module,
                                 handle |-> plugins_loaded[n].handle]
                 /\ Returned("unload_plugin", n, "running", TRUE, FALSE)
                 /\ UNCHANGED plugins_loaded
            ELSE /\ plugins_loaded' = DictPop(plugins_loaded, n)
                 /\ Returned("unload_plugin", n, "None", FALSE, FALSE)
                 /\ UNCHANGED callback
    /\ UNCHANGED <<plugins_dir, plugins_found>>
    /\ UNCHANGED <<QueueVars, tabs, HubVars, JobVars, ToolVars>>

\* unload_plugin(name), lines 1057-1064, up to the call of unregister; and to
\* the end of the function when no unregister is called
UnloadPlugin(n) ==
    /\ callback = NoCallback
    /\ IF n \notin DOMAIN plugins_loaded
       THEN /\ Returned("unload_plugin", n, "None", FALSE, FALSE)
            /\ UNCHANGED <<plugins_loaded, callback>>
       ELSE /\ plugins_loaded' = DictPop(plugins_loaded, n)
            /\ IF plugins_loaded[n].module.unregister
               THEN /\ callback' = [kind |-> "unregister", name |-> n,
                                    module |-> plugins_loaded[n].module,
                                    handle |-> plugins_loaded[n].handle]
                    /\ Returned("unload_plugin", n, "running", TRUE, FALSE)
               ELSE /\ Returned("unload_plugin", n, "None", FALSE, FALSE)
                    /\ UNCHANGED callback
    /\ UNCHANGED <<plugins_dir, plugins_found>>
    /\ UNCHANGED <<QueueVars, tabs, HubVars, JobVars, ToolVars>>

\* unload_plugin, line 1064: unregister returns
UnregisterReturns ==
    /\ callback.kind = "unregister"
    /\ Returned("unload_plugin", callback.name, "None", TRUE, FALSE)
    /\ callback' = NoCallback
    /\ UNCHANGED <<plugins_dir, plugins_found, plugins_loaded>>
    /\ UNCHANGED <<QueueVars, tabs, HubVars, JobVars, ToolVars>>

\* unload_plugin without the try/except around unregister
UnregisterRaises_propagates ==
    /\ callback.kind = "unregister"
    /\ Returned("unload_plugin", callback.name, "raised", TRUE, TRUE)
    /\ callback' = NoCallback
    /\ UNCHANGED <<plugins_dir, plugins_found, plugins_loaded>>
    /\ UNCHANGED <<QueueVars, tabs, HubVars, JobVars, ToolVars>>

\* unload_plugin, lines 1065-1066: unregister raises, the exception is printed
UnregisterRaises ==
    /\ callback.kind = "unregister"
    /\ Returned("unload_plugin", callback.name, "None", TRUE, TRUE)
    /\ callback' = NoCallback
    /\ UNCHANGED <<plugins_dir, plugins_found, plugins_loaded>>
    /\ UNCHANGED <<QueueVars, tabs, HubVars, JobVars, ToolVars>>

\* ------------------------------------------- the persisted enabled-set
\* A text is a sequence of characters.  A character is a number: the blank,
\* the comma, or a letter (a positive number); the numbers are ordered as the
\* code points are (blank < comma < letters).
Blank == -2
Comma == -1

\* str.strip(): leading and trailing blanks removed
RECURSIVE Strip(_)
Strip(t) ==
    IF t = <<>> THEN t
    ELSE IF Head(t) = Blank THEN Strip(Tail(t))
    ELSE IF t[Len(t)] = Blank THEN Strip(SubSeq(t, 1, Len(t) - 1))
    ELSE t

\* str.split(","): the pieces between the commas (one piece for no comma)
RECURSIVE Split(_, _)
Split(t, piece) ==
    IF t = <<>> THEN <<piece>>
    ELSE IF Head(t) = Comma THEN <<piece>> \o Split(Tail(t), <<>>)
    ELSE Split(Tail(t), Append(piece, Head(t)))

\* ",".join(list)
RECURSIVE Join(_)
Join(list) ==
    IF list = <<>> THEN <<>>
    ELSE IF Len(list) = 1 THEN Head(list)
    ELSE Head(list) \o <<Comma>> \o Join(Tail(list))

\* str < str
RECURSIVE LexLess(_, _)
LexLess(a, b) ==
    IF b = <<>> THEN FALSE
    ELSE IF a = <<>> THEN TRUE
    ELSE IF Head(a) # Head(b) THEN Head(a) < Head(b)
    ELSE LexLess(Tail(a), Tail(b))

\* sorted(set of str)
RECURSIVE Sorted(_)
Sorted(S) ==
    IF S = {} THEN <<>>
    ELSE LET m == CHOOSE x \in S : \A y \in S \ {x} : LexLess(x, y)
         IN <<m>> \o Sorted(S \ {m})

\* _read_enabled_plugins, given the stored string
read_enabled_plugins(raw) ==
    {Strip(Split(raw, <<>>)[i]) : i \in 1..Len(Split(raw, <<>>))} \ {<<>>}

\* _write_enabled_plugins: the string it stores
write_enabled_plugins(names_set) == Join(Sorted(names_set))

\* the name texts a scan can give: not empty (line 1028 falls back to the file
\* name), of any characters
NameChars == {Blank, Comma, 1}
NameTexts == UNION {[1..n -> NameChars] : n \in 1..MaxNameLen}
RECURSIVE SetsUpTo(_)
SetsUpTo(k) ==
    IF k = 0 THEN {{}}
    ELSE LET P == SetsUpTo(k - 1) IN P \cup {S \cup {t} : S \in P, t \in NameTexts}
NameSets == SetsUpTo(MaxNames)

NoRoundtrip == [stage |-> "none", names |-> {}, raw |-> <<>>, back |-> {}]

SettingsRest == <<QueueVars, tabs, PluginVars, HubVars, job, ToolVars>>

\* a caller has a set of names to store
TakeNames(S) ==
    /\ roundtrip.stage = "none"
    /\ roundtrip' = [stage |-> "taken", names |-> S, raw |-> <<>>, back |-> {}]
    /\ UNCHANGED SettingsRest

\* _write_enabled_plugins(names_set)
WriteEnabledPlugins ==
    /\ roundtrip.stage = "taken"
    /\ roundtrip' = [roundtrip EXCEPT !.stage = "written",
                                      !.raw = write_enabled_plugins(roundtrip.names)]
    /\ UNCHANGED SettingsRest

\* _read_enabled_plugins()
ReadEnabledPlugins ==
    /\ roundtrip.stage = "written"
    /\ roundtrip' = [roundtrip EXCEPT !.stage = "read",
                                      !.back = read_enabled_plugins(roundtrip.raw)]
    /\ UNCHANGED SettingsRest

\* --------------------------------------- the plugin menu and the plugin hub
\* the name of plugin n as a text (one letter), and the plugin names among
\* the names stored in the string raw
NameText(n) == <<n>>
EnabledNames(raw) == {n \in Names : NameText(n) \in read_enabled_plugins(raw)}

\* what the file of a plugin does when load_plugin executes it: exec_module
\* raises, or it gives a module whose register (if it has one) raises or
\* returns a handle
PluginCode ==
    [exec : {"raises"}]
        \cup {c \in [exec : {"ok"}, module : Modules, register : {"raises"} \cup Handles] :
                ~c.module.register => c.register = "None"}

\* a journal for a handler that starts: no storage write, no entry point
\* called, no load failed so far
FreshJournal(op, names, on) ==
    [op |-> op, names |-> names, on |-> on, writes |-> 0,
     register |-> [n \in Names |-> 0],
     unload |-> [n \in Names |-> 0],
     unregister |-> [n \in Names |-> 0],
     failed |-> {}]

\* the host state the handlers work on
HubState(op, names, on) ==
    [found |-> plugins_found, loaded |-> plugins_loaded, raw |-> enabled_raw,
     j |-> FreshJournal(op, names, on)]

SetHub(h) ==
    /\ plugins_found' = h.found
    /\ plugins_loaded' = h.loaded
    /\ enabled_raw' = h.raw
    /\ journal' = h.j

\* load_plugin(name) as a whole, the file doing what code says
load_plugin(h, n, code) ==
    IF n \in DOMAIN h.loaded THEN h
    ELSE IF n \notin DOMAIN h.found THEN [h EXCEPT !.j.failed = @ \cup {n}]
    ELSE IF code.exec = "raises" THEN [h EXCEPT !.j.failed = @ \cup {n}]
    ELSE IF code.module.register
    THEN IF code.register = "raises"
         THEN [h EXCEPT !.j.register[n] = @ + 1, !.j.failed = @ \cup {n}]
         ELSE [h EXCEPT !.j.register[n] = @ + 1,
                        !.loaded = DictPut(@, n, [module |-> code.module,
                                                  handle |-> code.register])]
    ELSE [h EXCEPT !.loaded = DictPut(@, n, [module |-> code.module, handle |-> "None"])]

\* unload_plugin(name) as a whole; whether unregister raises makes no
\* difference to the host state
unload_plugin(h, n) ==
    IF n \notin DOMAIN h.loaded THEN h
    ELSE [h EXCEPT !.loaded = DictPop(@, n),
                   !.j.unload[n] = @ + 1,
                   !.j.unregister[n] = IF h.loaded[n].module.unregister THEN @ + 1 ELSE @]

\* for name in names: self.unload_plugin(name)
RECURSIVE unload_each(_, _)
unload_each(h, names) ==
    IF names = {} THEN h
    ELSE LET n == CHOOSE x \in names : \A y \in names : x <= y
         IN unload_each(unload_plugin(h, n), names \ {n})

\* for name in names: if name in self.plugins_found: self.load_plugin(name)
RECURSIVE load_each(_, _, _)
load_each(h, names, code) ==
    IF names = {} THEN h
    ELSE LET n == CHOOSE x \in names : \A y \in names : x <= y
         IN load_each(IF n \in DOMAIN h.found THEN load_plugin(h, n, code[n]) ELSE h,
                      names \ {n}, code)

\* reload_plugins without the loop that unloads
reload_plugins_keeps(h, dir, code) ==
    LET s == [h EXCEPT !.found = scan_plugins(dir)]
    IN load_each(s, EnabledNames(s.raw), code)

\* reload_plugins
reload_plugins(h, dir, code) ==
    LET u == unload_each(h, DOMAIN h.loaded)
        s == [u EXCEPT !.found = scan_plugins(dir)]
    IN load_each(s, EnabledNames(s.raw), code)

\* bulk_set_enabled storing the set once for every name it changes
bulk_set_enabled_pername(h, names, on, code) ==
    LET current == read_enabled_plugins(h.raw)
        texts == {NameText(n) : n \in names}
        updated == IF on THEN current \cup texts ELSE current \ texts
    IN IF updated = current THEN h
       ELSE LET w == [h EXCEPT !.raw = write_enabled_plugins(updated),
                               !.j.writes = @ + Cardinality((updated \ current)
                                                            \cup (current \ updated))]
            IN IF on THEN load_each(w, names, code) ELSE unload_each(w, names)

\* PluginHubDialog.bulk_set_enabled(on), names being the selected rows
bulk_set_enabled(h, names, on, code) ==
    LET current == read_enabled_plugins(h.raw)
        texts == {NameText(n) : n \in names}
        updated == IF on THEN current \cup texts ELSE current \ texts
    IN IF updated = current THEN h
       ELSE LET w == [h EXCEPT !.raw = write_enabled_plugins(updated),
                               !.j.writes = @ + 1]
            IN IF on THEN load_each(w, names, code) ELSE unload_each(w, names)

\* open_plugins_manager with the dialog accepted, new_enabled being the names
\* checked in it; the dialog's constructor has rescanned the directory
open_plugins_manager(h, dir, new_enabled, code) ==
    LET s == [h EXCEPT !.found = scan_plugins(dir)]
        old == read_enabled_plugins(s.raw)
        new == {NameText(n) : n \in new_enabled}
        w == [s EXCEPT !.raw = write_enabled_plugins(new), !.j.writes = @ + 1]
        u == unload_each(w, {n \in Names : NameText(n) \in old \ new})
    IN load_each(u, {n \in Names : NameText(n) \in new \ old}, code)

HubRest == <<plugins_dir, callback, result, QueueVars, tabs, JobVars, ToolVars>>

\* the behaviours of the files of the names L, the ones a handler loads
Codes(L) == [L -> PluginCode]

ReloadPlugins ==
    /\ callback = NoCallback
    /\ \E code \in Codes(EnabledNames(enabled_raw) \cap plugins_dir) :
          SetHub(reload_plugins(HubState("reload_plugins", {}, TRUE), plugins_dir, code))
    /\ UNCHANGED HubRest

\* the rows of the hub's table are the names of the last scan
BulkSetEnabled(names, on) ==
    /\ callback = NoCallback
    /\ names \subseteq DOMAIN plugins_found
    /\ \E code \in Codes(IF on THEN names \ DOMAIN plugins_loaded ELSE {}) :
          SetHub(bulk_set_enabled(HubState("bulk_set_enabled", names, on), names, on, code))
    /\ UNCHANGED HubRest

OpenPluginsManager(new_enabled) ==
    /\ callback = NoCallback
    /\ new_enabled \subseteq plugins_dir
    /\ \E code \in Codes((new_enabled \ EnabledNames(enabled_raw)) \ DOMAIN plugins_loaded) :
          SetHub(open_plugins_manager(HubState("open_plugins_manager", new_enabled, TRUE),
                                      plugins_dir, new_enabled, code))
    /\ UNCHANGED HubRest

\* a plugin calls load_plugin(name) / unload_plugin(name) of the host it was
\* handed
HostLoadPlugin(n) ==
    /\ callback = NoCallback
    /\ \E code \in PluginCode :
          SetHub(load_plugin(HubState("load_plugin", {n}, TRUE), n, code))
    /\ UNCHANGED HubRest

HostUnloadPlugin(n) ==
    /\ callback = NoCallback
    /\ SetHub(unload_plugin(HubState("unload_plugin", {n}, FALSE), n))
    /\ UNCHANGED HubRest

\* ------------------------------------------- one worker and its processes
\* job: the worker's position in run() (pc), its _is_running flag, the number
\* of external processes it started, how these ended, the media_info it
\* computed and the signals it emitted (progress_updated left out).

\* how the ffprobe run of get_media_info can end: communicate() times out;
\* the exit status is not 0 (and the text of stderr holds the word the handler
\* at line 200 looks for, or not); stdout is empty; stdout does not parse as
\* JSON; stdout parses; anything else in the try block raises
PrimaryOutcomes == {"timeout", "nonzero", "nonzero_timeout_word", "empty",
                    "badjson", "json", "raises"}

\* what the ffprobe run of get_basic_media_info reports: three lines for the
\* format, then the lines of every stream
Numbers == {"N/A", "number"}
VideoStreams == [codec_type : {"video"}, codec_name : {"N/A", "h264"},
                 width : Numbers, height : Numbers]
AudioStreams == [codec_type : {"audio"}, codec_name : {"N/A", "aac"}]
Streams == VideoStreams \cup AudioStreams
Reports == [duration : Numbers, size : {"number"}, bit_rate : Numbers,
            streams : UNION {[1..n -> Streams] : n \in 1..MaxStreams}]

RECURSIVE StreamLines(_)
StreamLines(streams) ==
    IF streams = <<>> THEN <<>>
    ELSE LET st == Head(streams)
         IN (IF st.codec_type = "video"
             THEN <<st.codec_type, st.codec_name, st.width, st.height>>
             ELSE <<st.codec_type, st.codec_name>>) \o StreamLines(Tail(streams))

\* stdout of the run, as the list `lines` of line 226
ReportLines(r) == <<r.duration, r.size, r.bit_rate>> \o StreamLines(r.streams)

\* how the ffprobe run of get_basic_media_info can end: communicate() times
\* out, something else in the try block raises, or the process exits (with
\* status 0 or not, which the code does not look at) having printed a report
FallbackOutcomes ==
    {[end |-> "timeout"], [end |-> "raises"]}
        \cup [end : {"exit"}, status : {"zero", "nonzero"}, report : Reports]

\* the dict of lines 227-231 / 257-261, the keys the model follows
UnknownInfo == [duration |-> "unknown", resolution |-> <<"unknown">>,
                video_codec |-> "unknown", audio_codec |-> "unknown", bit_rate |-> "unknown"]
\* the dict of lines 251-255
ParseFailedInfo == [duration |-> "parse_failed", resolution |-> <<"parse_failed">>,
                    video_codec |-> "parse_failed", audio_codec |-> "parse_failed",
                    bit_rate |-> "parse_failed"]
\* a dict parse_ffprobe_output made of valid JSON
JsonInfo == [duration |-> "json", resolution |-> <<"json">>, video_codec |-> "json",
             audio_codec |-> "json", bit_rate |-> "json"]

\* lines[k] of the code (k counts from 0)
Line(lines, k) == lines[k + 1]

\* f"{width}x{height}"
Resolution(w, h) == <<IF w = "N/A" THEN "0" ELSE w, "x", IF h = "N/A" THEN "0" ELSE h>>

\* get_basic_media_info reading the codec name one line too far
RECURSIVE basic_stream_lines_shifted(_, _, _)
basic_stream_lines_shifted(lines, i, info) ==
    IF i + 3 >= Len(lines) THEN info
    ELSE LET line == Line(lines, i + 3)
             v == IF line = "video" /\ i + 5 < Len(lines)
                  THEN [info EXCEPT !.video_codec = IF Line(lines, i + 5) # "N/A"
                                                    THEN Line(lines, i + 5) ELSE "unknown"]
                  ELSE info
         IN basic_stream_lines_shifted(lines, i + 1, v)

\* the loop of lines 238-248: i and line run over enumerate(lines[3:])
RECURSIVE basic_stream_lines(_, _, _)
basic_stream_lines(lines, i, info) ==
    IF i + 3 >= Len(lines) THEN info
    ELSE LET line == Line(lines, i + 3)
             v == IF line = "video" /\ i + 4 < Len(lines)
                  THEN [info EXCEPT !.video_codec = IF Line(lines, i + 4) # "N/A"
                                                    THEN Line(lines, i + 4) ELSE "unknown"]
                  ELSE info
             r == IF line = "video" /\ i + 4 < Len(lines)
                     /\ i + 5 < Len(lines) /\ i + 6 < Len(lines)
                  THEN [v EXCEPT !.resolution = Resolution(Line(lines, i + 5), Line(lines, i + 6))]
                  ELSE v
             a == IF line = "audio" /\ i + 4 < Len(lines)
                  THEN [r EXCEPT !.audio_codec = IF Line(lines, i + 4) # "N/A"
                                                 THEN Line(lines, i + 4) ELSE "unknown"]
                  ELSE r
         IN basic_stream_lines(lines, i + 1, a)

\* format_duration(float(x)) and format_bitrate(x) of a line that is a number
format_duration(x) == "hh:mm:ss"
format_bitrate(x) == "bps"

\* get_basic_media_info, lines 226-249, given the lines of stdout
get_basic_media_info(lines) ==
    IF Len(lines) >= 5
    THEN basic_stream_lines(lines, 0,
            [UnknownInfo EXCEPT
                !.duration = IF Line(lines, 0) # "N/A"
                             THEN format_duration(Line(lines, 0)) ELSE "unknown",
                !.bit_rate = IF Line(lines, 2) # "N/A"
                             THEN format_bitrate(Line(lines, 2)) ELSE "unknown"])
    ELSE UnknownInfo

JobRest == <<QueueVars, tabs, PluginVars, HubVars, roundtrip, ToolVars>>

JobIdle == job.pc = "done"

\* FFmpegAnalysisThread(file_path).start(), run() up to the Popen of line 179;
\* exists = FALSE: the checks of lines 125-135 end the run with an error
StartProbe(exists) ==
    /\ JobIdle
    /\ job' = [kind |-> "probe", running |-> TRUE,
               pc |-> IF exists THEN "primary" ELSE "done",
               started |-> IF exists THEN 1 ELSE 0,
               primary |-> "none", fallback |-> [end |-> "none"],
               info |-> "none",
               emitted |-> IF exists THEN <<>> ELSE <<"error">>]
    /\ UNCHANGED JobRest

\* run() after get_media_info gave media_info: lines 142-147
probe_finish(j, info) ==
    [j EXCEPT !.pc = "done", !.info = info,
              !.emitted = IF j.running THEN Append(@, "finished") ELSE @]

\* run() when get_media_info raised: lines 148-150
probe_fail(j) ==
    [j EXCEPT !.pc = "done",
              !.emitted = IF j.running THEN Append(@, "error") ELSE @]

\* get_media_info calls get_basic_media_info: the Popen of line 216
start_fallback(j) == [j EXCEPT !.pc = "fallback", !.started = @ + 1]

\* get_media_info starting the second run after a time-out as well
ProbePrimaryEnds_retries(o) ==
    /\ job.kind = "probe" /\ job.pc = "primary"
    /\ LET j == [job EXCEPT !.primary = o]
       IN job' = IF o = "json" THEN probe_finish(j, JsonInfo)
                 ELSE IF o = "nonzero_timeout_word" THEN probe_fail(j)
                 ELSE start_fallback(j)
    /\ UNCHANGED JobRest

\* get_media_info, lines 183-205, when the first ffprobe run has ended
ProbePrimaryEnds(o) ==
    /\ job.kind = "probe" /\ job.pc = "primary"
    /\ LET j == [job EXCEPT !.primary = o]
       IN job' = IF o = "json" THEN probe_finish(j, JsonInfo)
                 ELSE IF o \in {"timeout", "nonzero_timeout_word"} THEN probe_fail(j)
                 ELSE start_fallback(j)
    /\ UNCHANGED JobRest

\* get_basic_media_info, lines 220-255, when the second ffprobe run has ended
ProbeFallbackEnds ==
    /\ job.kind = "probe" /\ job.pc = "fallback"
    /\ \E o \in FallbackOutcomes :
          job' = probe_finish([job EXCEPT !.fallback = o],
                              IF o.end = "exit"
                              THEN get_basic_media_info(ReportLines(o.report))
                              ELSE ParseFailedInfo)
    /\ UNCHANGED JobRest

\* ThumbnailGeneratorThread(file_path).start(), run() up to the Popen of line 390
StartThumbnail(f) ==
    /\ JobIdle
    /\ job' = [kind |-> "thumbnail", file |-> f, running |-> TRUE, pc |-> "ffmpeg",
               started |-> 1, primary |-> "none", fallback |-> [end |-> "none"],
               info |-> "none", emitted |-> <<>>]
    /\ UNCHANGED JobRest

\* ThumbnailGeneratorThread.run, lines 394-417, when ffmpeg has ended
ThumbnailEnds(o) ==
    /\ job.kind = "thumbnail" /\ job.pc = "ffmpeg"
    /\ LET em == EmitOf(job.file, o, job.running)
       IN job' = [job EXCEPT !.pc = "done", !.primary = o,
                             !.emitted = [i \in 1..Len(em) |-> em[i].kind]]
    /\ UNCHANGED JobRest

\* stop(): _is_running = False (and the process, if any, is terminated)
StopJob ==
    /\ job.pc # "done"
    /\ job.running
    /\ job' = [job EXCEPT !.running = FALSE]
    /\ UNCHANGED JobRest

\* --------------------------------------- plugin files and their names
\* A line of a plugin file is a text over the characters above and four more:
\* Quote (' or ": every test of the two functions below treats the two
\* alike), Equals, Hash, and Keyword, which stands for the substring
\* PLUGIN_NAME.  The line terminator is left out: both functions strip it.
Quote == -3
Equals == -4
Hash == -5
Keyword == -6

\* range(40) of scan_plugins and range(120) of _read_plugin_name_from_file
ScanLimit == 40
HubLimit == 120

\* PLUGIN_NAME = "A"
Assignment == <<Keyword, Blank, Equals, Blank, Quote, 1, Quote>>
\* PLUGIN_NAME = "A" # b
AssignmentWithComment == Assignment \o <<Blank, Hash, Blank, 2>>
\*  PLUGIN_NAME=" A "
PaddedAssignment == <<Blank, Keyword, Equals, Quote, Blank, 1, Blank, Quote>>
\* # PLUGIN_NAME = "A"
CommentedOut == <<Hash, Blank>> \o Assignment
\* PLUGIN_NAME = A
Unquoted == <<Keyword, Blank, Equals, Blank, 1>>
\* b = b
CodeLine == <<2, Blank, Equals, Blank, 2>>

LineShapes ==
    {Assignment, AssignmentWithComment, PaddedAssignment, CommentedOut,
     Unquoted, CodeLine}

\* A file has `at` lines: CodeLine everywhere but for its last line.
Positions == {1, ScanLimit, ScanLimit + 1, HubLimit, HubLimit + 1}
Contents == [at : Positions, text : LineShapes]
Stems == 1..NumStems

\* f.readline() for line k: <<>> at the end of the file
readline(c, k) ==
    IF k > c.at THEN <<>> ELSE IF k = c.at THEN c.text ELSE CodeLine

\* os.path.splitext(fn)[0] / Path(py_path).stem, as a text
stem(s) == <<10 + s>>

\* c in t
Contains(t, c) == \E i \in 1..Len(t) : t[i] = c

\* t.split(c, 1)[1], for a text that contains c
AfterFirst(t, c) ==
    LET i == CHOOSE i \in 1..Len(t) : t[i] = c /\ \A j \in 1..(i - 1) : t[j] # c
    IN SubSeq(t, i + 1, Len(t))

\* str.strip(chars)
RECURSIVE StripChars(_, _)
StripChars(t, chars) ==
    IF t = <<>> THEN t
    ELSE IF Head(t) \in chars THEN StripChars(Tail(t), chars)
    ELSE IF t[Len(t)] \in chars THEN StripChars(SubSeq(t, 1, Len(t) - 1), chars)
    ELSE t

\* the lines f.readline() returns in a loop of `limit` rounds
LinesRead(c, limit) == {k \in 1..limit : k <= c.at}

\* the least element of a non-empty set of line numbers
First(S) == CHOOSE k \in S : \A x \in S : k <= x

\* the loop of scan_plugins over the first 40 lines: the name taken from the
\* first line that holds PLUGIN_NAME and "="; <<>> is both None and the
\* empty name
scan_lines(c) ==
    LET hits == {k \in LinesRead(c, ScanLimit) :
                    Contains(readline(c, k), Keyword) /\ Contains(readline(c, k), Equals)}
    IN IF hits = {} THEN <<>>
       ELSE StripChars(Strip(AfterFirst(readline(c, First(hits)), Equals)),
                       {Quote, Blank})

\* scan_lines of every content, computed once
ScannedLines == {<<c, scan_lines(c)>> : c \in Contents}

\* the name scan_plugins gives to file s of directory dir
scan_name(dir, s) ==
    LET name == (CHOOSE p \in ScannedLines : p[1] = dir[s])[2]
    IN IF name = <<>> THEN stem(s) ELSE name

\* scan_plugins: os.listdir gives the files in any order, and a later file
\* replaces an earlier one of the same name
scan_results(dir) ==
    LET names == {scan_name(dir, s) : s \in DOMAIN dir}
    IN {found \in [names -> [path : DOMAIN dir]] :
            \A n \in names : scan_name(dir, found[n].path) = n}

\* \s* from position i on: the position after the blanks
RECURSIVE SkipBlanks(_, _)
SkipBlanks(t, i) ==
    IF i <= Len(t) /\ t[i] = Blank THEN SkipBlanks(t, i + 1) ELSE i

At(t, i, c) == i <= Len(t) /\ t[i] = c

\* re.search(r"""^\s*PLUGIN_NAME\s*=\s*['"](.+?)['"]""", line): the group of
\* the match, the shortest non-empty text after the opening quote that a
\* quote follows
re_search(line) ==
    LET k == SkipBlanks(line, 1)
        e == SkipBlanks(line, k + 1)
        q == SkipBlanks(line, e + 1)
        closing == {j \in (q + 2)..Len(line) : line[j] = Quote}
    IN IF At(line, k, Keyword) /\ At(line, e, Equals) /\ At(line, q, Quote)
          /\ closing # {}
       THEN [matched |-> TRUE,
             group |-> SubSeq(line, q + 1,
                              (CHOOSE j \in closing : \A x \in closing : j <= x) - 1)]
       ELSE [matched |-> FALSE, group |-> <<>>]

\* the loop of _read_plugin_name_from_file over the first 120 lines: the
\* match of the first line that matches
read_lines(c) ==
    LET hits == {k \in LinesRead(c, HubLimit) : re_search(readline(c, k)).matched}
    IN IF hits = {} THEN [matched |-> FALSE, group |-> <<>>]
       ELSE re_search(readline(c, First(hits)))

\* read_lines of every content, computed once
ReadLines == {<<c, read_lines(c)>> : c \in Contents}

\* _read_plugin_name_from_file of file s holding content c
read_plugin_name_from_file(c, s) ==
    LET m == (CHOOSE p \in ReadLines : p[1] = c)[2]
    IN IF m.matched THEN Strip(m.group) ELSE stem(s)

\* registry.plugins_dir gives the content of every .py file of the plugins
\* directory, plugins_found is the host's dict, enabled the stored
\* enabled-set, plugins_loaded the names of the loaded plugins;
\* installed and loaded_now are what the last _install_files copied and loaded.
NoRegistry ==
    [stage |-> "none", plugins_dir |-> <<>>, plugins_found |-> <<>>,
     enabled |-> {}, plugins_loaded |-> {}, installed |-> <<>>, loaded_now |-> {}]

RegistryRest == <<QueueVars, tabs, PluginVars, HubVars, JobVars, metatool, worker>>

\* the directories of at most NumStems plugin files
Dirs == UNION {[S -> Contents] : S \in SUBSET Stems}

\* the user puts plugin files into the plugins directory
WritePluginsDir ==
    /\ registry.stage = "none"
    /\ \E dir \in Dirs :
          registry' = [registry EXCEPT !.stage = "written", !.plugins_dir = dir]
    /\ UNCHANGED RegistryRest

\* scan_plugins
HostScanPlugins ==
    /\ registry.stage = "written"
    /\ \E found \in scan_results(registry.plugins_dir) :
          registry' = [registry EXCEPT !.stage = "scanned", !.plugins_found = found]
    /\ UNCHANGED RegistryRest

\* the first loop of _install_files: _copy_or_overwrite of every picked file
RECURSIVE copy_each(_, _)
copy_each(r, files) ==
    IF files = <<>> THEN r
    ELSE copy_each([r EXCEPT !.plugins_dir = DictPut(@, files[1].stem, files[1].content),
                             !.installed = Append(@, files[1].stem)],
                   Tail(files))

\* the second loop: name, plugins_found entry and enabled-set
RECURSIVE enable_each(_, _)
enable_each(r, i) ==
    IF i > Len(r.installed) THEN r
    ELSE LET py == r.installed[i]
             name == read_plugin_name_from_file(r.plugins_dir[py], py)
         IN enable_each([r EXCEPT !.plugins_found = DictPut(@, name, [path |-> py]),
                                  !.enabled = @ \cup {name}],
                        i + 1)

\* the third loop: load_plugin of every name; imports[i] tells whether the
\* import and register of the i-th file succeed
RECURSIVE install_load_each(_, _, _)
install_load_each(r, imports, i) ==
    IF i > Len(r.installed) THEN r
    ELSE LET py == r.installed[i]
             name == read_plugin_name_from_file(r.plugins_dir[py], py)
         IN install_load_each(
                IF name \in r.plugins_loaded THEN r
                ELSE IF name \notin DOMAIN r.plugins_found \/ ~imports[i] THEN r
                ELSE [r EXCEPT !.plugins_loaded = @ \cup {name},
                               !.loaded_now = @ \cup {name}],
                imports, i + 1)

\* the picked files: at most MaxInstall .py files
Picked ==
    UNION {[1..n -> [stem : Stems, content : Contents]] : n \in 1..MaxInstall}

\* _install_files, with the rescan of its final refresh()
InstallFiles ==
    /\ registry.stage = "scanned"
    /\ \E files \in Picked :
       \E imports \in [1..Len(files) -> BOOLEAN] :
          LET copied == copy_each([registry EXCEPT !.installed = <<>>,
                                                   !.loaded_now = {}], files)
              loaded == install_load_each(enable_each(copied, 1), imports, 1)
          IN \E found \in scan_results(loaded.plugins_dir) :
                registry' = [loaded EXCEPT !.stage = "installed",
                                           !.plugins_found = found]
    /\ UNCHANGED RegistryRest

\* ------------------------------------------------ the metadata tool
\* metatool.files is self.files of MetadataToolDialog; metatool.disk gives for
\* every video file what its path holds ("original" or "processed" content)
\* and what <path>.backup holds ("none": no such file); metatool.last is the record of the last batch: the list it
\* ran over, what happened to every file it attempted, and the ok / total of
\* its closing message, kept while that (modal) message box is open.
MetaFiles == 1..MaxBatch

NoBatch == [op |-> "none", files |-> <<>>, attempted |-> <<>>, ok |-> 0, total |-> 0]
NoMetaTool == [files |-> <<>>,
               disk |-> [f \in MetaFiles |-> [src |-> "original", backup |-> "none"]],
               last |-> NoBatch]

\* what the steps of one _edit_single / _clear_single call do: _run_ffmpeg
\* gives ok or not; shutil.copy2 copies, or raises having written nothing;
\* os.replace onto the source works or raises (after a failed ffmpeg run the
\* later steps are not reached)
SingleOutcomes ==
    {o \in [ffmpeg : {"ok", "fails"}, copy2 : {"ok", "raises"},
            replace : {"ok", "raises"}] :
        o.ffmpeg = "fails" => (o.copy2 = "ok" /\ o.replace = "ok")}

\* lines 195-201 and 272-278: the backup is made if there is none (a failure
\* of the copy is passed over), then the output replaces the source
backup_and_replace(d, o) ==
    LET b == IF d.backup # "none" THEN d.backup
             ELSE IF o.copy2 = "ok" THEN d.src
             ELSE "none"
    IN IF o.replace = "ok"
       THEN [disk |-> [src |-> "processed", backup |-> b], raised |-> FALSE,
             replaced |-> TRUE, backup_at_replace |-> b # "none"]
       ELSE [disk |-> [src |-> d.src, backup |-> b], raised |-> TRUE,
             replaced |-> FALSE, backup_at_replace |-> b # "none"]

\* the call leaves the source as it is: ffmpeg failed (RuntimeError raised),
\* or the output went to a file of its own
untouched(d, raised) ==
    [disk |-> d, raised |-> raised, replaced |-> FALSE, backup_at_replace |-> d.backup # "none"]

\* _edit_single(src, ..., newname), d being what the disk holds for src
edit_single(d, newname, o) ==
    IF o.ffmpeg = "fails" THEN untouched(d, TRUE)
    ELSE IF newname THEN untouched(d, FALSE)
    ELSE backup_and_replace(d, o)

\* _clear_single(src)
clear_single(d, o) ==
    IF o.ffmpeg = "fails" THEN untouched(d, TRUE)
    ELSE backup_and_replace(d, o)

\* the dialog state a batch works on
single(op, d, newname, o) ==
    IF op = "apply_edit_batch" THEN edit_single(d, newname, o) ELSE clear_single(d, o)

\* a batch loop that ends at the first file that raises
RECURSIVE batch_loop_aborts(_, _, _, _, _)
batch_loop_aborts(m, op, newname, outs, i) ==
    IF i > Len(m.last.files) THEN m
    ELSE LET src == m.last.files[i]
             r == single(op, m.disk[src], newname, outs[i])
             n == [m EXCEPT !.disk[src] = r.disk,
                            !.last.attempted = Append(@, [file |-> src, ffmpeg |-> outs[i].ffmpeg,
                                                          raised |-> r.raised,
                                                          replaced |-> r.replaced,
                                                          backup_at_replace |-> r.backup_at_replace,
                                                          before |-> m.disk[src].src,
                                                          after |-> r.disk.src]),
                            !.last.ok = IF r.raised THEN @ ELSE @ + 1]
         IN IF r.raised THEN n ELSE batch_loop_aborts(n, op, newname, outs, i + 1)

\* lines 157-164 and 211-218: for i, src in enumerate(self.files), with
\* try / except Exception / finally around the call
RECURSIVE batch_loop(_, _, _, _, _)
batch_loop(m, op, newname, outs, i) ==
    IF i > Len(m.last.files) THEN m
    ELSE LET src == m.last.files[i]
             r == single(op, m.disk[src], newname, outs[i])
         IN batch_loop(
               [m EXCEPT !.disk[src] = r.disk,
                         !.last.attempted = Append(@, [file |-> src, ffmpeg |-> outs[i].ffmpeg,
                                                       raised |-> r.raised,
                                                       replaced |-> r.replaced,
                                                       backup_at_replace |-> r.backup_at_replace,
                                                       before |-> m.disk[src].src,
                                                       after |-> r.disk.src]),
                         !.last.ok = IF r.raised THEN @ ELSE @ + 1],
               op, newname, outs, i + 1)

\* a batch from its first line to its closing message f"{ok}/{len(self.files)}"
batch(m, op, newname, outs) ==
    batch_loop([m EXCEPT !.last = [op |-> op, files |-> m.files, attempted |-> <<>>,
                                   ok |-> 0, total |-> Len(m.files)]],
               op, newname, outs, 1)

MetaRest == <<QueueVars, tabs, PluginVars, HubVars, JobVars, registry, worker>>

\* _add_files, for one path picked in the file dialog
AddFiles(f) ==
    /\ metatool.last = NoBatch
    /\ ~\E i \in 1..Len(metatool.files) : metatool.files[i] = f
    /\ metatool' = [metatool EXCEPT !.files = Append(@, f)]
    /\ UNCHANGED MetaRest

\* _remove_selected, for the selected row
RemoveSelected(row) ==
    /\ metatool.last = NoBatch
    /\ row \in 1..Len(metatool.files)
    /\ metatool' = [metatool EXCEPT !.files = SubSeq(@, 1, row - 1) \o SubSeq(@, row + 1, Len(@))]
    /\ UNCHANGED MetaRest

\* _apply_edit_batch; newname: the field for the new file name is filled in
ApplyEditBatch(newname) ==
    /\ metatool.last = NoBatch
    /\ metatool.files # <<>>
    /\ \E outs \in [1..Len(metatool.files) -> SingleOutcomes] :
          metatool' = batch(metatool, "apply_edit_batch", newname, outs)
    /\ UNCHANGED MetaRest

\* _clear_meta_batch
ClearMetaBatch ==
    /\ metatool.last = NoBatch
    /\ metatool.files # <<>>
    /\ \E outs \in [1..Len(metatool.files) -> SingleOutcomes] :
          metatool' = batch(metatool, "clear_meta_batch", FALSE, outs)
    /\ UNCHANGED MetaRest

\* the user closes the message box of lines 167 / 221
DismissMessage ==
    /\ metatool.last # NoBatch
    /\ metatool' = [metatool EXCEPT !.last = NoBatch]
    /\ UNCHANGED MetaRest

\* ------------------- one probe worker, statement by statement, and its tab
\* worker.pc is the line of FFmpegAnalysisThread the thread is at ("end": run()
\* has returned and the thread is about to finish; "finished": isRunning() is
\* False).  procs are the external processes it started, each with its state
\* ("live", "exited", "terminated" by stop(), "killed" after a time-out) and
\* whether stop() had been called before its Popen.  inbox holds the signals
\* queued for the tab (progress_updated left out); tab is what the tab shows;
\* control is "idle" or the handler the control thread waits in; late is set
\* when the tab handles a signal after a cancellation that called stop().
NoWorker == [pc |-> "none", running |-> TRUE, stopped |-> FALSE, procs |-> <<>>,
             media |-> "none", inbox |-> <<>>, tab |-> "none", control |-> "idle",
             late |-> FALSE]

WorkerRest == <<QueueVars, tabs, PluginVars, HubVars, JobVars, registry, metatool>>

\* VideoInfoTab.__init__ -> analyze_video: the thread is made and started
AnalyzeVideo ==
    /\ worker.pc = "none"
    /\ worker' = [worker EXCEPT !.pc = "l125", !.tab = "analyzing"]
    /\ UNCHANGED WorkerRest

\* run(), lines 125-135: the checks of the file; a failing check emits
\* error_occurred without reading _is_running
RunChecks(ok) ==
    /\ worker.pc = "l125"
    /\ worker' = IF ok THEN [worker EXCEPT !.pc = "l136"]
                 ELSE [worker EXCEPT !.pc = "end", !.inbox = Append(@, "error")]
    /\ UNCHANGED WorkerRest

\* the line run() goes on with when the flag it reads is still set
AfterFlag(pc) ==
    CASE pc = "l136" -> "l138"
      [] pc = "l139" -> "l179"
      [] pc = "l142" -> "l145"
      [] pc = "l145" -> "l147"
      [] pc = "l149" -> "l150"

\* run(), lines 136, 139, 142, 145 and 149: `if not self._is_running: return`
\* (line 149: `if self._is_running:` before the emit of line 150)
RunReadsFlag ==
    /\ worker.pc \in {"l136", "l139", "l142", "l145", "l149"}
    /\ worker' = [worker EXCEPT !.pc = IF worker.running THEN AfterFlag(worker.pc) ELSE "end"]
    /\ UNCHANGED WorkerRest

\* run(), line 138: get_file_info; os.path.getsize raises when the file has
\* gone meanwhile
RunFileInfo(ok) ==
    /\ worker.pc = "l138"
    /\ worker' = [worker EXCEPT !.pc = IF ok THEN "l139" ELSE "l149"]
    /\ UNCHANGED WorkerRest

\* subprocess.Popen at line 179 (get_media_info) and line 216
\* (get_basic_media_info); it raises when ffprobe cannot be started
RunPopen(ok) ==
    /\ worker.pc \in {"l179", "l216"}
    /\ worker' =
         IF ok
         THEN [worker EXCEPT !.pc = IF worker.pc = "l179" THEN "l184" ELSE "l221",
                             !.procs = Append(@, [state |-> "live",
                                                  after_stop |-> worker.stopped])]
         ELSE IF worker.pc = "l179"
         THEN [worker EXCEPT !.pc = "l216"]
         ELSE [worker EXCEPT !.pc = "l142", !.media = "parse_failed"]
    /\ UNCHANGED WorkerRest

\* the state of a process when communicate() has returned
Ended(p, o) ==
    IF o = "timeout" THEN [p EXCEPT !.state = "killed"]
    ELSE IF p.state = "live" THEN [p EXCEPT !.state = "exited"]
    ELSE p

\* get_media_info, lines 184-205: communicate() of the first run returns
RunCommunicate(o) ==
    /\ worker.pc = "l184"
    /\ LET k == Len(worker.procs)
           w == [worker EXCEPT !.procs[k] = Ended(@, o)]
       IN worker' = IF o = "json" THEN [w EXCEPT !.pc = "l142", !.media = "json"]
                    ELSE IF o \in {"timeout", "nonzero_timeout_word"} THEN [w EXCEPT !.pc = "l149"]
                    ELSE [w EXCEPT !.pc = "l216"]
    /\ UNCHANGED WorkerRest

\* get_basic_media_info, lines 221-255: communicate() of the second run
\* returns; the function returns a dict in every case
RunBasicCommunicate(o) ==
    /\ worker.pc = "l221"
    /\ LET k == Len(worker.procs)
       IN worker' = [worker EXCEPT !.procs[k] = Ended(@, o), !.pc = "l142",
                                   !.media = IF o = "exit" THEN "basic" ELSE "parse_failed"]
    /\ UNCHANGED WorkerRest

\* run(), lines 147 and 150: the emit; the signal is queued for the tab
RunEmits ==
    /\ worker.pc \in {"l147", "l150"}
    /\ worker' = [worker EXCEPT !.pc = "end",
                                !.inbox = Append(@, IF worker.pc = "l147" THEN "finished"
                                                    ELSE "error")]
    /\ UNCHANGED WorkerRest

\* run() has returned: the thread finishes
ThreadFinishes ==
    /\ worker.pc = "end"
    /\ worker' = [worker EXCEPT !.pc = "finished"]
    /\ UNCHANGED WorkerRest

\* FFmpegAnalysisThread.stop(): the flag is cleared and the process stored in
\* self.process, if it runs, is terminated with its children
stop(w) ==
    [w EXCEPT !.running = FALSE, !.stopped = TRUE,
              !.procs = [i \in DOMAIN w.procs |->
                            IF w.procs[i].state = "live"
                            THEN [w.procs[i] EXCEPT !.state = "terminated"]
                            ELSE w.procs[i]]]

isRunning(w) == w.pc \notin {"none", "finished"}

\* what the tab shows when the handler how has come to its end
Shown(how) == IF how = "cancel_analysis" THEN "cancelled" ELSE "closed"

\* cancel_analysis (lines 577-580) and closeEvent (lines 710-713) up to the
\* wait: stop(), quit(), then the control thread blocks in wait(); when the
\* thread is not running the handler runs to its end at once
StopAndWait(how) ==
    /\ worker.control = "idle"
    /\ IF how = "cancel_analysis" THEN worker.tab = "analyzing"
       ELSE worker.tab \notin {"none", "closed"}
    /\ worker' = IF isRunning(worker) THEN [stop(worker) EXCEPT !.control = how]
                 ELSE [worker EXCEPT !.tab = Shown(how)]
    /\ UNCHANGED WorkerRest

\* the lines at which the thread can stay longer than the 5 s / 3 s of the wait
Blocking == {"l125", "l138", "l184", "l221"}

\* wait(5000) / wait(3000) returns, the thread having finished or the time
\* being over; the handler runs to its end (lines 581-585, 714)
WaitReturns ==
    /\ worker.control # "idle"
    /\ worker.pc = "finished" \/ worker.pc \in Blocking
    /\ worker' = [worker EXCEPT !.control = "idle", !.tab = Shown(worker.control)]
    /\ UNCHANGED WorkerRest

\* the event loop delivers a queued signal: display_video_info / display_error
TabReceives ==
    /\ worker.control = "idle"
    /\ worker.inbox # <<>>
    /\ worker' = [worker EXCEPT !.inbox = Tail(@),
                                !.tab = IF Head(worker.inbox) = "finished" THEN "shown"
                                        ELSE "error",
                                !.late = @ \/ (worker.stopped
                                               /\ worker.tab \in {"cancelled", "closed"})]
    /\ UNCHANGED WorkerRest


Init ==
    /\ video_files = {}
    /\ file_list_widget = {}
    /\ thumbnail_queue = <<>>
    /\ thumbnail_threads = <<>>
    /\ active_thumbnail_threads = 0
    /\ events = <<>>
    /\ tabs = <<>>
    /\ plugins_dir = {}
    /\ plugins_found = <<>>
    /\ plugins_loaded = <<>>
    /\ callback = NoCallback
    /\ result = NoResult
    /\ enabled_raw = <<>>
    /\ journal = NoJournal
    /\ roundtrip = NoRoundtrip
    /\ job = NoJob
    /\ registry = NoRegistry
    /\ metatool = NoMetaTool
    /\ worker = NoWorker

Next ==
    \/ \E files \in FileLists : AddFilesToList(files)
    \/ OnThumbnailGenerated
    \/ OnThumbnailError
    \/ \E f \in Files : RemoveSelectedFiles(f)
    \/ ClearFileList
    \/ \E f \in Files : ThumbRun(f)

Spec == Init /\ [][Next]_vars

\* the work queue with its workers and the event loop making progress: every
\* started thread comes to the end of run() (every ffmpeg run is bounded by
\* the 10 s of line 396) and the control thread handles every queued signal
Fairness ==
    /\ WF_vars(OnThumbnailGenerated)
    /\ WF_vars(OnThumbnailError)
    /\ \A f \in Files : WF_vars(ThumbRun(f))

SpecLive == Init /\ [][Next]_vars /\ Fairness

\* the work queue together with the tabs and their probe threads
NextTabs ==
    \/ Next
    \/ \E f \in Files : OnFileSelected(f)
    \/ \E f \in Files : ProbeRun(f)
    \/ \E f \in Files : CloseTab(f)

SpecTabs == Init /\ [][NextTabs]_vars

\* the plugin lifecycle
NextPlugins ==
    \/ \E n \in Names : InstallPluginFile(n)
    \/ \E n \in Names : DeletePluginFile(n)
    \/ ScanPlugins
    \/ \E n \in Names : LoadPlugin(n)
    \/ \E h \in Handles : RegisterReturns(h)
    \/ RegisterRaises
    \/ \E n \in Names : UnloadPlugin(n)
    \/ UnregisterReturns
    \/ UnregisterRaises

SpecPlugins == Init /\ [][NextPlugins]_vars

\* the plugin lifecycle driven from the plugin menu and the plugin hub
NextHub ==
    \/ \E n \in Names : InstallPluginFile(n)
    \/ \E n \in Names : DeletePluginFile(n)
    \/ ScanPlugins
    \/ \E n \in Names : HostLoadPlugin(n)
    \/ \E n \in Names : HostUnloadPlugin(n)
    \/ ReloadPlugins
    \/ \E names \in SUBSET Names, on \in BOOLEAN : BulkSetEnabled(names, on)
    \/ \E new_enabled \in SUBSET Names : OpenPluginsManager(new_enabled)

SpecHub == Init /\ [][NextHub]_vars

\* one worker thread from start() to the end of run()
NextJobs ==
    \/ \E exists \in BOOLEAN : StartProbe(exists)
    \/ \E o \in PrimaryOutcomes : ProbePrimaryEnds(o)
    \/ ProbeFallbackEnds
    \/ \E f \in Files : StartThumbnail(f)
    \/ \E o \in Outcomes : ThumbnailEnds(o)
    \/ StopJob

SpecJobs == Init /\ [][NextJobs]_vars

\* the stored form of the enabled-set: written, then read back
NextSettings ==
    \/ \E S \in NameSets : TakeNames(S)
    \/ WriteEnabledPlugins
    \/ ReadEnabledPlugins

SpecSettings == Init /\ [][NextSettings]_vars

\* the metadata tool's dialog
NextMeta ==
    \/ \E f \in MetaFiles : AddFiles(f)
    \/ \E row \in 1..MaxBatch : RemoveSelected(row)
    \/ \E newname \in BOOLEAN : ApplyEditBatch(newname)
    \/ ClearMetaBatch
    \/ DismissMessage

SpecMeta == Init /\ [][NextMeta]_vars

\* the plugins directory, the host's scan and the hub's installer
NextScan ==
    \/ WritePluginsDir
    \/ HostScanPlugins
    \/ InstallFiles

SpecScan == Init /\ [][NextScan]_vars

\* one probe worker racing with the tab's cancel button and the tab's close
NextCancel ==
    \/ AnalyzeVideo
    \/ \E ok \in BOOLEAN : RunChecks(ok)
    \/ RunReadsFlag
    \/ \E ok \in BOOLEAN : RunFileInfo(ok)
    \/ \E ok \in BOOLEAN : RunPopen(ok)
    \/ \E o \in PrimaryOutcomes : RunCommunicate(o)
    \/ \E o \in {"timeout", "raises", "exit"} : RunBasicCommunicate(o)
    \/ RunEmits
    \/ ThreadFinishes
    \/ \E how \in {"cancel_analysis", "closeEvent"} : StopAndWait(how)
    \/ WaitReturns
    \/ TabReceives

SpecCancel == Init /\ [][NextCancel]_vars

\* ==================================================================== claims
\* number of queue entries for file f
Pending(f) == Cardinality({i \in 1..Len(thumbnail_queue) : thumbnail_queue[i].file = f})

\* thumbnail workers and probe workers still inside run()
RunningThumbnails == {f \in DOMAIN thumbnail_threads : thumbnail_threads[f].thread = "running"}
RunningProbes == {f \in DOMAIN tabs : tabs[f] = "running"}

\* a step of a handler that takes a tracked job out of thumbnail_threads:
\* delivery of a signal for a tracked file, or removal of a tracked file
SignalFreesSlot ==
    /\ OnThumbnailGenerated \/ OnThumbnailError
    /\ Head(events).file \in DOMAIN thumbnail_threads
RemoveFreesSlot(f) ==
    /\ RemoveSelectedFiles(f)
    /\ f \in DOMAIN thumbnail_threads

\* C1: the counter active_thumbnail_threads never exceeds
\* max_concurrent_thumbnails, whatever adds, removals, clears and signal
\* deliveries happened.
C1_QueueCeiling == active_thumbnail_threads <= max_concurrent_thumbnails

C1_Witness ==
    /\ active_thumbnail_threads = max_concurrent_thumbnails
    /\ thumbnail_queue # <<>>

C3_FifoAdmission ==
    [][(SignalFreesSlot /\ thumbnail_queue # <<>>)
        => /\ thumbnail_queue' = Tail(thumbnail_queue)
           /\ Head(thumbnail_queue).file \in DOMAIN thumbnail_threads'
           /\ thumbnail_threads'[Head(thumbnail_queue).file].thread = "running"
           /\ active_thumbnail_threads' = active_thumbnail_threads]_vars

\* C4 (as claimed): at most one job per file path is tracked across the
\* pending queue and the active set together.
C4_OneJobPerFile ==
    \A f \in Files : Pending(f) + (IF f \in DOMAIN thumbnail_threads THEN 1 ELSE 0) <= 1

\* C5 (as claimed): the job of a removed file does not stay pending and no
\* worker runs for it: every pending or active job belongs to an item that is
\* in the list.
C5_CancelQueued ==
    /\ \A i \in 1..Len(thumbnail_queue) : thumbnail_queue[i].item
    /\ \A f \in DOMAIN thumbnail_threads : thumbnail_threads[f].item

\* C6 (as claimed): removing the file of an active job releases one slot and,
\* in the same step, admits the head of the pending queue if there is one.
C6_CancelActive ==
    [][\A f \in Files : RemoveFreesSlot(f) =>
          IF thumbnail_queue = <<>>
          THEN /\ active_thumbnail_threads' = active_thumbnail_threads - 1
               /\ f \notin DOMAIN thumbnail_threads'
          ELSE /\ active_thumbnail_threads' = active_thumbnail_threads
               /\ thumbnail_queue' = Tail(thumbnail_queue)
               /\ Head(thumbnail_queue).file \in DOMAIN thumbnail_threads'
               /\ (f \notin DOMAIN thumbnail_threads' \/ Head(thumbnail_queue).file = f)]_vars

\* C7: load_plugin(name) for a name that is loaded returns True, invokes no
\* entry point and leaves plugins_loaded (module and handle of the first
\* call) as it is.
C7_IdempotentLoad ==
    [][\A n \in Names : (LoadPlugin(n) /\ n \in DOMAIN plugins_loaded) =>
          /\ result' = [call |-> "load_plugin", name |-> n, value |-> "True",
                        invoked |-> FALSE, logged |-> FALSE]
          /\ callback' = NoCallback
          /\ plugins_loaded' = plugins_loaded]_vars

C7_Witness ==
    /\ result.call = "load_plugin" /\ result.value = "True" /\ ~result.invoked
    /\ result.name \in DOMAIN plugins_loaded
    /\ plugins_loaded[result.name].module.register
    /\ plugins_loaded[result.name].handle = "handle"

\* C8: when unregister raises, unload_plugin returns normally (the error is
\* only printed) and the plugin is not in plugins_loaded.
C8_UnloadCompletes ==
    (result.call = "unload_plugin" /\ result.logged)
        => /\ result.value = "None"
           /\ result.name \notin DOMAIN plugins_loaded

C8_Witness ==
    /\ result.call = "unload_plugin" /\ result.logged /\ result.invoked
    /\ callback = NoCallback

\* C9 (as claimed): while unregister runs, the plugin is still recorded in
\* plugins_loaded.
C9_LoadedDuringUnregister ==
    callback.kind = "unregister" => callback.name \in DOMAIN plugins_loaded

\* C9 (amended): unload_plugin first pops the entry and then calls unregister
\* with the handle that entry stored; the plugin is not in plugins_loaded
\* while unregister runs.
C9_PoppedBeforeUnregister ==
    [][\A n \in Names : (UnloadPlugin(n) /\ callback'.kind = "unregister") =>
          /\ n \in DOMAIN plugins_loaded
          /\ callback'.name = n
          /\ callback'.handle = plugins_loaded[n].handle
          /\ n \notin DOMAIN plugins_loaded']_vars

C9_Witness ==
    /\ callback.kind = "unregister"
    /\ callback.handle = "handle"

\* C10: a load_plugin call in which executing the file or register raises (the
\* traceback is printed) returns False, leaves its name out of plugins_loaded
\* and every entry of plugins_loaded as it was.
C10_FailedLoadLeavesNoState ==
    [][((RegisterRaises \/ \E n \in Names : LoadPlugin(n)) /\ result'.logged)
        => /\ result'.value = "False"
           /\ result'.name \notin DOMAIN plugins_loaded'
           /\ plugins_loaded' = plugins_loaded]_vars

C10_Witness ==
    /\ result.call = "load_plugin" /\ result.value = "False"
    /\ result.invoked /\ result.logged
    /\ plugins_loaded # <<>>

\* C11 (as claimed): load_plugin(name) for a name that plugins_found does not
\* have returns False and leaves plugins_loaded unchanged.
C11_AbsentNameFails ==
    [][\A n \in Names : (LoadPlugin(n) /\ n \notin DOMAIN plugins_found) =>
          /\ result'.value = "False"
          /\ plugins_loaded' = plugins_loaded]_vars

\* C11 (amended): load_plugin(name) for a name that is neither loaded nor in
\* plugins_found returns False, calls no entry point and leaves plugins_loaded
\* unchanged; for a loaded name it returns True whatever plugins_found holds.
C11_AbsentUnloadedNameFails ==
    [][\A n \in Names : (LoadPlugin(n) /\ n \notin DOMAIN plugins_found) =>
          /\ result'.value = (IF n \in DOMAIN plugins_loaded THEN "True" ELSE "False")
          /\ ~result'.invoked
          /\ callback' = NoCallback
          /\ plugins_loaded' = plugins_loaded]_vars

C11_Witness ==
    /\ result.call = "load_plugin" /\ result.value = "False" /\ ~result.logged
    /\ result.name \notin DOMAIN plugins_found
    /\ result.name \in plugins_dir
    /\ plugins_loaded # <<>>

\* the plugins that are loaded / enabled, and the handler steps the claims
\* are about
Loaded == DOMAIN plugins_loaded
Enabled == EnabledNames(enabled_raw)
\* (a step that writes a new journal is a step of the handler the journal
\* names; a handler step that leaves the journal as it is has to be told from
\* the steps of the directory and of the scan)
ReloadStep ==
    /\ journal'.op = "reload_plugins"
    /\ journal' # journal \/ (UNCHANGED plugins_dir /\ ReloadPlugins)
BulkStep(names, on) ==
    /\ journal'.op = "bulk_set_enabled" /\ journal'.names = names /\ journal'.on = on
    /\ journal' # journal \/ (UNCHANGED <<plugins_dir, plugins_found>> /\ BulkSetEnabled(names, on))
ManagerStep ==
    /\ journal'.op = "open_plugins_manager"
    /\ journal' # journal \/ (UNCHANGED plugins_dir /\ OpenPluginsManager(journal'.names))

\* C12: after reload_plugins() in which no load failed, plugins_found is the
\* scan of the directory, the loaded plugins are exactly the names that are in
\* that scan and in the stored enabled-set, and every plugin that was loaded
\* before was unloaded once, its unregister (if it has one) called once.
C12_ReloadResynchronizes ==
    [][(ReloadStep /\ journal'.failed = {}) =>
          /\ plugins_found' = scan_plugins(plugins_dir)
          /\ DOMAIN plugins_loaded' = DOMAIN plugins_found' \cap EnabledNames(enabled_raw')
          /\ enabled_raw' = enabled_raw
          /\ \A n \in Names :
                /\ journal'.unload[n] = (IF n \in Loaded THEN 1 ELSE 0)
                /\ journal'.unregister[n] =
                      (IF n \in Loaded /\ plugins_loaded[n].module.unregister THEN 1 ELSE 0)]_vars

C12_Witness ==
    /\ journal.op = "reload_plugins" /\ journal.failed = {}
    /\ \E n \in Names : journal.unregister[n] = 1 /\ n \notin Loaded
    /\ \E n \in Names : journal.unload[n] = 0 /\ n \in Loaded
    /\ Enabled # Loaded

\* C13 (as claimed): after bulk_set_enabled(True) in which no load failed,
\* every selected name is in the stored enabled-set and every selected name
\* that plugins_found has is loaded.
C13_EnableLoads ==
    [][\A names \in SUBSET Names : (BulkStep(names, TRUE) /\ journal'.failed = {}) =>
          /\ names \subseteq EnabledNames(enabled_raw')
          /\ names \cap DOMAIN plugins_found' \subseteq DOMAIN plugins_loaded']_vars

\* C14 (as claimed): after bulk_set_enabled(False), no selected name is in the
\* stored enabled-set and no selected name is loaded.
C14_DisableUnloads ==
    [][\A names \in SUBSET Names : BulkStep(names, FALSE) =>
          /\ names \cap EnabledNames(enabled_raw') = {}
          /\ names \cap DOMAIN plugins_loaded' = {}]_vars

\* C15 (as claimed): after bulk_set_enabled or an accepted plugin manager
\* dialog in which no load failed, a plugin of plugins_found is loaded if and
\* only if its name is in the stored enabled-set.
C15_EnabledSynchronized ==
    [][(((\E names \in SUBSET Names, on \in BOOLEAN : BulkStep(names, on)) \/ ManagerStep)
            /\ journal'.failed = {}) =>
          \A n \in DOMAIN plugins_found' :
              n \in DOMAIN plugins_loaded' <=> n \in EnabledNames(enabled_raw')]_vars

\* a text without a comma
CommaFree(t) == \A i \in 1..Len(t) : t[i] # Comma

\* C16 (as claimed): for comma-free names, reading back what
\* _write_enabled_plugins wrote returns the set that was written.
C16_RoundTrip ==
    (roundtrip.stage = "read" /\ \A t \in roundtrip.names : CommaFree(t))
        => roundtrip.back = roundtrip.names

\* C17: one call of bulk_set_enabled stores the enabled-set at most once,
\* however many names are selected.
C17_OneWritePerBulkCall ==
    journal.op = "bulk_set_enabled" => journal.writes <= 1

C17_Witness ==
    /\ journal.op = "bulk_set_enabled" /\ journal.on
    /\ Cardinality(journal.names) >= 2
    /\ journal.writes = 1
    /\ \A n \in journal.names : journal.register[n] = 1

\* a job that ran to the end of run() without stop() having been called
Finished == job.pc = "done" /\ job.kind # "none" /\ job.running

\* one of the job's external processes exited with a status other than 0
NonzeroExit ==
    \/ job.primary \in {"nonzero", "nonzero_timeout_word"}
    \/ job.fallback.end = "exit" /\ job.fallback.status = "nonzero"

\* one of the job's external processes ran into its time limit
TimedOut == job.primary = "timeout" \/ job.fallback.end = "timeout"

\* C18 (as claimed): a job one of whose external processes exited with a
\* nonzero status (and none of whose processes timed out) ends Failed: it
\* emits the error signal and no result signal.
C18_NonzeroExitFails ==
    (Finished /\ NonzeroExit /\ ~TimedOut) => job.emitted = <<"error">>

\* C19 (as claimed): a job one of whose external processes timed out (none
\* having exited with a nonzero status) ends Failed (error signal, no result
\* signal), and the process that timed out is the last one the job started.
C19_TimeoutFails ==
    (Finished /\ TimedOut /\ ~NonzeroExit)
        => /\ job.emitted = <<"error">>
           /\ job.started = (IF job.fallback.end = "timeout" THEN 2 ELSE 1)

\* the last video stream of a report (0 if it has none), and the values the
\* report holds for duration, resolution and video_codec
LastVideo(r) ==
    LET V == {i \in 1..Len(r.streams) : r.streams[i].codec_type = "video"}
    IN IF V = {} THEN 0 ELSE CHOOSE i \in V : \A k \in V : k <= i

ReportedDuration(r) == IF r.duration = "N/A" THEN "unknown" ELSE format_duration(r.duration)
ReportedCodec(r) ==
    IF LastVideo(r) = 0 \/ r.streams[LastVideo(r)].codec_name = "N/A" THEN "unknown"
    ELSE r.streams[LastVideo(r)].codec_name
ReportedResolution(r) ==
    IF LastVideo(r) = 0 THEN <<"unknown">>
    ELSE Resolution(r.streams[LastVideo(r)].width, r.streams[LastVideo(r)].height)

\* C20: a probe job whose first ffprobe run exits with status 0 and prints
\* text that is not JSON starts the second (plain-text) run and ends with the
\* result signal, not the error signal; when that run prints its report (of
\* at least one stream), duration, resolution and video_codec of the result
\* are the values of the report's lines, read in the order duration, size,
\* bit_rate, then codec_type, codec_name, width, height of every stream.
C20_MalformedJsonFallback ==
    (Finished /\ job.kind = "probe" /\ job.primary = "badjson")
        => /\ job.started = 2
           /\ job.emitted = <<"finished">>
           /\ job.fallback.end = "exit" =>
                 /\ job.info.duration = ReportedDuration(job.fallback.report)
                 /\ job.info.video_codec = ReportedCodec(job.fallback.report)
                 /\ job.info.resolution = ReportedResolution(job.fallback.report)

C20_Witness ==
    /\ Finished /\ job.kind = "probe" /\ job.primary = "badjson"
    /\ job.fallback.end = "exit"
    /\ Len(job.fallback.report.streams) = 2
    /\ job.fallback.report.streams[1].codec_type = "audio"
    /\ job.info.duration = "hh:mm:ss"
    /\ job.info.video_codec = "h264"
    /\ job.info.resolution = <<"number", "x", "0">>

\* a listed file has a pending job (the job queued for its item), and the job
\* made for its item is in thumbnail_threads
PendingListed(f) == \E i \in 1..Len(thumbnail_queue) :
                       thumbnail_queue[i].file = f /\ thumbnail_queue[i].item
AdmittedListed(f) == f \in DOMAIN thumbnail_threads /\ thumbnail_threads[f].item

\* C23 (as claimed): when every worker comes to its end and every signal is
\* delivered, the pending job of a file is eventually admitted, unless the
\* file is removed or the list cleared.
C23_PendingEventuallyAdmitted ==
    \A f \in Files : PendingListed(f) ~> (AdmittedListed(f) \/ f \notin file_list_widget)

\* C24: active_thumbnail_threads is the number of entries of
\* thumbnail_threads in every reachable state, and never negative.
C24_SlotAccounting ==
    /\ active_thumbnail_threads = Cardinality(DOMAIN thumbnail_threads)
    /\ active_thumbnail_threads >= 0

\* a signal of a file without an entry waits for delivery while other jobs
\* hold slots and a job is pending
C24_Witness ==
    /\ events # <<>>
    /\ Head(events).file \notin DOMAIN thumbnail_threads
    /\ active_thumbnail_threads = max_concurrent_thumbnails
    /\ thumbnail_queue # <<>>

\* the signal at the head of the queue was emitted by an earlier job of its
\* file: the job thumbnail_threads has for the file is still inside run()
\* and has emitted nothing
StaleSignal ==
    /\ events # <<>>
    /\ Head(events).file \in DOMAIN thumbnail_threads
    /\ thumbnail_threads[Head(events).file].thread = "running"

\* C28 (as claimed): the delivery of a signal that an earlier, cancelled job
\* of file F emitted leaves the entry of the new job of F in
\* thumbnail_threads and does not release its slot.
C28_StaleSignalHarmless ==
    [][(StaleSignal /\ (OnThumbnailGenerated \/ OnThumbnailError))
        => /\ Head(events).file \in DOMAIN thumbnail_threads'
           /\ thumbnail_threads'[Head(events).file] = thumbnail_threads[Head(events).file]
           /\ active_thumbnail_threads' >= active_thumbnail_threads]_vars

\* the external processes of the job that are running: a process runs from
\* its Popen until communicate() / wait() has returned or it was killed
LiveProcesses == IF job.pc \in {"primary", "fallback", "ffmpeg"} THEN 1 ELSE 0

\* the ways the first ffprobe run ends after which get_media_info starts the
\* second one
FallbackCauses == {"nonzero", "empty", "badjson", "raises"}

C25_StopTerminatesProcesses ==
    worker.stopped =>
        \A i \in DOMAIN worker.procs :
            worker.procs[i].state # "live" /\ ~worker.procs[i].after_stop

\* C26 (as claimed): after a cancellation that called stop() and waited, the
\* tab handles no analysis_finished or error_occurred signal of the job.
C26_NoLateCallback == ~worker.late

\* the calls of the last batch that raised no error
Succeeded == {i \in 1..Len(metatool.last.attempted) : ~metatool.last.attempted[i].raised}

\* C22: a batch attempts every file of the list, in the order of the list,
\* whatever happened to the files before it, and its closing message gives
\* ok / total with ok the number of files whose call raised no error and
\* total the length of the list.
C22_BatchNeverAborts ==
    metatool.last.op # "none" =>
        /\ Len(metatool.last.attempted) = Len(metatool.last.files)
        /\ \A i \in 1..Len(metatool.last.files) :
               metatool.last.attempted[i].file = metatool.last.files[i]
        /\ metatool.last.ok = Cardinality(Succeeded)
        /\ metatool.last.total = Len(metatool.last.files)

C22_Witness ==
    /\ metatool.last.op = "clear_meta_batch"
    /\ Len(metatool.last.files) = MaxBatch
    /\ metatool.last.attempted[1].raised
    /\ ~metatool.last.attempted[MaxBatch].raised
    /\ metatool.last.ok = MaxBatch - 1

\* C30 (as claimed): a call that replaced the source file found
\* <src>.backup existing at that moment, and a call whose ffmpeg run failed
\* left the source file as it was.
C30_BackupBeforeOverwrite ==
    \A i \in 1..Len(metatool.last.attempted) :
        LET a == metatool.last.attempted[i]
        IN /\ a.replaced => a.backup_at_replace
           /\ a.ffmpeg = "fails" => (~a.replaced /\ a.after = a.before)

\* the text between the first quote of t and the next one; <<>> without two
\* quotes
QuotedString(t) ==
    LET quotes == {i \in 1..Len(t) : t[i] = Quote}
        open == CHOOSE i \in quotes : \A x \in quotes : i <= x
        later == {i \in quotes : i > open}
    IN IF quotes = {} \/ later = {} THEN <<>>
       ELSE SubSeq(t, open + 1, (CHOOSE i \in later : \A x \in later : i <= x) - 1)

\* the line holds an assignment of a quoted string to PLUGIN_NAME
Declares(line) ==
    /\ Contains(line, Keyword)
    /\ Contains(line, Equals)
    /\ QuotedString(AfterFirst(line, Equals)) # <<>>

\* the first-40-line positions of content c whose line declares a name
DeclaringLines(c) == {k \in LinesRead(c, ScanLimit) : Declares(readline(c, k))}

\* every line among the first 40 of c either declares a quoted name or does
\* not mention PLUGIN_NAME
PlainlyDeclared(c) ==
    \A k \in LinesRead(c, ScanLimit) :
        Declares(readline(c, k)) \/ ~Contains(readline(c, k), Keyword)

\* the name the file s of content c declares: the quoted string of the first
\* declaring line with quotes and surrounding blanks stripped, else the stem
DeclaredName(c, s) ==
    IF DeclaringLines(c) = {} THEN stem(s)
    ELSE Strip(QuotedString(AfterFirst(readline(c, First(DeclaringLines(c))), Equals)))

\* C21 (as claimed): after a scan of a directory whose files declare their
\* names plainly and declare different names, plugins_found lists every file
\* under the name it declares in its first 40 lines, or under its stem when
\* it declares none there.
C21_ScanNaming ==
    LET dir == registry.plugins_dir
    IN (/\ registry.stage = "scanned"
        /\ \A s \in DOMAIN dir : PlainlyDeclared(dir[s])
        /\ \A s, t \in DOMAIN dir :
               s # t => DeclaredName(dir[s], s) # DeclaredName(dir[t], t))
       => \A s \in DOMAIN dir :
              /\ DeclaredName(dir[s], s) \in DOMAIN registry.plugins_found
              /\ registry.plugins_found[DeclaredName(dir[s], s)].path = s

\* C29 (as claimed): when _install_files has finished, every name it loaded
\* and enabled is listed in plugins_found, with the path of a file it
\* installed.
C29_InstallerAgreesWithScan ==
    registry.stage = "installed" =>
        \A n \in registry.loaded_now \cap registry.enabled :
            /\ n \in DOMAIN registry.plugins_found
            /\ \E i \in 1..Len(registry.installed) :
                   registry.plugins_found[n].path = registry.installed[i]

====
